---- MODULE Spec2Model ----
(***************************************************************************)
(* Model of my-regression-app: the two regression functions of myfit.py    *)
(* (linear_regression, quadratic_regression) and the two transport         *)
(* adapters of lambda_function.py (the Flask routes and the Lambda         *)
(* handler).                                                               *)
(*                                                                         *)
(* Numbers are exact rationals <<num, den>> (den > 0, lowest terms); the   *)
(* code's IEEE doubles are abstracted to the real values they approximate. *)
(* RMSE is kept as the radicand of the square root the code takes.         *)
(***************************************************************************)
EXTENDS Integers, Sequences, FiniteSets, TLC

\* ------------------------------------------------------------------------
\* Bounds of the model
\* ------------------------------------------------------------------------
MaxLen == 3       \* longest list of finite numbers given to the fit
MaxX == 1         \* x samples are drawn from -1..MaxX
MaxY == 1         \* y samples are drawn from 0..MaxY
MaxKindLen == 2   \* longest list mixing numbers with non-numbers
MaxBodyLen == 3   \* longest x / y array inside a request body

\* ------------------------------------------------------------------------
\* Exact rational arithmetic
\* ------------------------------------------------------------------------
Abs(n) == IF n < 0 THEN -n ELSE n

RECURSIVE GCD(_, _)
GCD(a, b) == IF b = 0 THEN a ELSE GCD(b, a % b)

Rat(n, d) ==
    LET g == GCD(Abs(n), Abs(d))
        s == IF d < 0 THEN -1 ELSE 1
    IN  << (s * n) \div g, (s * d) \div g >>

Zero == << 0, 1 >>

RInt(n) == << n, 1 >>

RNeg(p) == << 0 - p[1], p[2] >>

\* Sums and products cancel common factors before they multiply, so that
\* intermediate values stay small.
RAdd(p, q) ==
    LET g == GCD(p[2], q[2])
    IN  Rat(p[1] * (q[2] \div g) + q[1] * (p[2] \div g), (p[2] \div g) * q[2])

RSub(p, q) == RAdd(p, RNeg(q))

RMul(p, q) ==
    LET g1 == GCD(Abs(p[1]), q[2])
        g2 == GCD(Abs(q[1]), p[2])
    IN  << (p[1] \div g1) * (q[1] \div g2), (p[2] \div g2) * (q[2] \div g1) >>

RInv(q) == IF q[1] < 0 THEN << 0 - q[2], 0 - q[1] >> ELSE << q[2], q[1] >>

RDiv(p, q) == RMul(p, RInv(q))

RECURSIVE Pow(_, _)
Pow(b, e) == IF e = 0 THEN 1 ELSE b * Pow(b, e - 1)

RECURSIVE SumSeq(_)
SumSeq(s) == IF s = << >> THEN 0 ELSE Head(s) + SumSeq(Tail(s))

RECURSIVE RSumSeq(_)
RSumSeq(s) == IF s = << >> THEN Zero ELSE RAdd(Head(s), RSumSeq(Tail(s)))

\* ------------------------------------------------------------------------
\* Python values that reach the regression functions
\* ------------------------------------------------------------------------
\* A list element: an int/float ("num", value v), a bool (v is 0 or 1, the
\* value Python's bool has as an int), a str, None ("null"), or a float that
\* is not finite ("nan": json.loads accepts NaN and Infinity).
Num(v) == [k |-> "num", v |-> v]

BoolTrue == [k |-> "bool", v |-> 1]

BoolFalse == [k |-> "bool", v |-> 0]

StrElem == [k |-> "str", v |-> 0]

NullElem == [k |-> "null", v |-> 0]

NanElem == [k |-> "nan", v |-> 0]

\* An argument: a list, None, or some other non-list value.
List(items) == [t |-> "list", items |-> items]

NoneArg == [t |-> "none", items |-> << >>]

ScalarArg == [t |-> "scalar", items |-> << >>]

\* isinstance(val, (int, float)): bool is a subclass of int, and every float
\* (finite or not) is a float.
IsIntOrFloat(e) == e.k \in {"num", "bool", "nan"}

IsFinite(e) == e.k \in {"num", "bool"}

\* ------------------------------------------------------------------------
\* Outcomes of a call
\* ------------------------------------------------------------------------
RSqrt(r) == [radicand |-> r]

Returned(params, rmse) ==
    [kind |-> "return", exc |-> "none", params |-> params, RMSE |-> rmse]

Raised(exc) ==
    [kind |-> "raise", exc |-> exc, params |-> << >>, RMSE |-> RSqrt(Zero)]

NoOutcome == [kind |-> "none", exc |-> "none", params |-> << >>, RMSE |-> RSqrt(Zero)]

\* ------------------------------------------------------------------------
\* numpy.polynomial.polynomial.polyfit / polyval, sklearn mean_squared_error
\* ------------------------------------------------------------------------
\* xs, ys are sequences of integers (the numeric values of the samples).
PowerSum(xs, k) == SumSeq([i \in 1..Len(xs) |-> Pow(xs[i], k)])

MomentSum(xs, ys, k) == SumSeq([i \in 1..Len(xs) |-> Pow(xs[i], k) * ys[i]])

Det2(a, b, c, d) == a * d - b * c

Det3(m) ==
      m[1][1] * Det2(m[2][2], m[2][3], m[3][2], m[3][3])
    - m[1][2] * Det2(m[2][1], m[2][3], m[3][1], m[3][3])
    + m[1][3] * Det2(m[2][1], m[2][2], m[3][1], m[3][2])

Nodes(xs) == {xs[i] : i \in 1..Len(xs)}

\* Mean of the y samples taken at x = a.
NodeMean(xs, ys, a) ==
    LET idx == {i \in 1..Len(xs) : xs[i] = a}
    IN  Rat(SumSeq([i \in 1..Len(xs) |-> IF i \in idx THEN ys[i] ELSE 0]),
            Cardinality(idx))

\* polyfit scales column k of the Vandermonde matrix by its Euclidean norm
\* (a zero norm is replaced by 1); ColWeight is the square of that scale.
ColWeight(xs, k) ==
    LET w == PowerSum(xs, 2 * k) IN IF w = 0 THEN 1 ELSE w

\* Full column rank: the unique solution of the normal equations, by
\* Cramer's rule.  Coefficients are ordered low to high degree.
FullRankFit(xs, ys, deg) ==
    LET S0 == PowerSum(xs, 0)
        S1 == PowerSum(xs, 1)
        S2 == PowerSum(xs, 2)
        S3 == PowerSum(xs, 3)
        S4 == PowerSum(xs, 4)
        T0 == MomentSum(xs, ys, 0)
        T1 == MomentSum(xs, ys, 1)
        T2 == MomentSum(xs, ys, 2)
    IN  IF deg = 1
        THEN LET D == Det2(S0, S1, S1, S2)
             IN  << Rat(Det2(T0, S1, T1, S2), D),
                    Rat(Det2(S0, T0, S1, T1), D) >>
        ELSE LET D  == Det3(<< <<S0, S1, S2>>, <<S1, S2, S3>>, <<S2, S3, S4>> >>)
             IN  << Rat(Det3(<< <<T0, S1, S2>>, <<T1, S2, S3>>, <<T2, S3, S4>> >>), D),
                    Rat(Det3(<< <<S0, T0, S2>>, <<S1, T1, S3>>, <<S2, T2, S4>> >>), D),
                    Rat(Det3(<< <<S0, S1, T0>>, <<S1, S2, T1>>, <<S2, S3, T2>> >>), D) >>

\* Rank deficient (at most deg distinct x values): lstsq issues a
\* RankWarning, raises nothing, and returns the least-squares solution of
\* minimum norm in the scaled coordinates: the c with p(a) = NodeMean(a) at
\* every distinct x value a that minimises the sum of ColWeight(k) * c[k]^2.
\* One distinct x value a: c[k] is proportional to a^k / ColWeight(k).
OneNodeFit(xs, ys, deg, a) ==
    LET ks  == [j \in 1..(deg + 1) |-> j - 1]
        g   == RSumSeq([j \in 1..(deg + 1) |->
                   Rat(Pow(a, 2 * ks[j]), ColWeight(xs, ks[j]))])
        lam == RDiv(NodeMean(xs, ys, a), g)
    IN  [j \in 1..(deg + 1) |->
            RMul(lam, Rat(Pow(a, ks[j]), ColWeight(xs, ks[j])))]

\* Two distinct x values a < b and degree 2: the solutions are the line
\* through the two node means plus t * (x - a)(x - b); t minimises the
\* weighted norm.
TwoNodeFit(xs, ys, a, b) ==
    LET w0 == RInt(ColWeight(xs, 0))
        w1 == RInt(ColWeight(xs, 1))
        w2 == RInt(ColWeight(xs, 2))
        c1 == RDiv(RSub(NodeMean(xs, ys, b), NodeMean(xs, ys, a)), RInt(b - a))
        c0 == RSub(NodeMean(xs, ys, a), RMul(RInt(a), c1))
        v0 == RInt(a * b)
        v1 == RInt(0 - (a + b))
        t  == RDiv(RNeg(RAdd(RMul(w0, RMul(c0, v0)), RMul(w1, RMul(c1, v1)))),
                   RAdd(RAdd(RMul(w0, RMul(v0, v0)), RMul(w1, RMul(v1, v1))), w2))
    IN  << RAdd(c0, RMul(t, v0)), RAdd(c1, RMul(t, v1)), t >>

MinNormFit(xs, ys, deg) ==
    LET lo == CHOOSE a \in Nodes(xs) : \A b \in Nodes(xs) : a <= b
        hi == CHOOSE a \in Nodes(xs) : \A b \in Nodes(xs) : b <= a
    IN  IF lo = hi
        THEN OneNodeFit(xs, ys, deg, lo)
        ELSE TwoNodeFit(xs, ys, lo, hi)

\* polyfit(x, y, deg): coefficients ordered from low to high degree.
polyfit(xs, ys, deg) ==
    IF Cardinality(Nodes(xs)) > deg
    THEN FullRankFit(xs, ys, deg)
    ELSE MinNormFit(xs, ys, deg)

\* polyval(x, c): c[1] + c[2]*x + c[3]*x^2 + ... at one sample x (c is
\* ordered from low to high degree), by Horner's rule as numpy does.
RECURSIVE polyval(_, _)
polyval(xv, c) ==
    IF c = << >>
    THEN Zero
    ELSE RAdd(Head(c), RMul(RInt(xv), polyval(xv, Tail(c))))

\* polyval over the list of samples.
RECURSIVE Predicted(_, _)
Predicted(xs, c) ==
    IF xs = << >>
    THEN << >>
    ELSE << polyval(Head(xs), c) >> \o Predicted(Tail(xs), c)

\* Sum of the squared differences of the integers yt and the rationals yp.
RECURSIVE SquaredError(_, _)
SquaredError(yt, yp) ==
    IF yt = << >>
    THEN Zero
    ELSE LET r == RSub(RInt(Head(yt)), Head(yp))
         IN  RAdd(RMul(r, r), SquaredError(Tail(yt), Tail(yp)))

\* mean_squared_error(y_true, y_pred).
mean_squared_error(yt, yp) == RDiv(SquaredError(yt, yp), RInt(Len(yt)))

\* ------------------------------------------------------------------------
\* myfit.py
\* ------------------------------------------------------------------------
Values(arg) == [i \in 1..Len(arg.items) |-> arg.items[i].v]

AllNumbers(arg) == \A i \in 1..Len(arg.items) : IsIntOrFloat(arg.items[i])

AllFinite(arg) == \A i \in 1..Len(arg.items) : IsFinite(arg.items[i])

\* With a NaN or an infinity among the samples the body of the try block
\* raises: lstsq raises LinAlgError, or mean_squared_error rejects the
\* non-finite y / y_predicted with ValueError.
FitRaises(x, y) == ~AllFinite(x) \/ ~AllFinite(y)

\* Lines 38-41: the predictions of the polynomial with coefficient list p
\* (as polyval reads it, low to high degree), their RMSE, and the result.
Scored(xs, ys, p) ==
    Returned(p, RSqrt(mean_squared_error(ys, Predicted(xs, p))))

\* Line 37: p1, p0 = polyfit(x, y, 1), c being what polyfit returned; the
\* lists given to polyval and returned as params are [p0, p1].
LinearUnpack(xs, ys, c) == Scored(xs, ys, << c[2], c[1] >>)

\* Lines 36-44: the try block of linear_regression.
LinearFit(x, y) ==
    IF FitRaises(x, y)
    THEN Raised("RuntimeError")
    ELSE LinearUnpack(Values(x), Values(y), polyfit(Values(x), Values(y), 1))

\* linear_regression with the too-few-samples default taken before the
\* length comparison.
linear_regression_default_first(x, y) ==
    IF x.t # "list" \/ y.t # "list"
    THEN Raised("ValueError")
    ELSE IF ~AllNumbers(x) \/ ~AllNumbers(y)
    THEN Raised("ValueError")
    ELSE IF Len(x.items) < 2
    THEN Returned(<< Zero, Zero >>, RSqrt(Zero))
    ELSE IF Len(x.items) # Len(y.items)
    THEN Raised("ValueError")
    ELSE LinearFit(x, y)

linear_regression(x, y) ==
    IF x.t # "list" \/ y.t # "list"
    THEN Raised("ValueError")
    ELSE IF ~AllNumbers(x) \/ ~AllNumbers(y)
    THEN Raised("ValueError")
    ELSE IF Len(x.items) # Len(y.items)
    THEN Raised("ValueError")
    ELSE IF Len(x.items) < 2
    THEN Returned(<< Zero, Zero >>, RSqrt(Zero))
    ELSE LinearFit(x, y)

\* Line 71: p2, p1, p0 = polyfit(x, y, 2), c being what polyfit returned;
\* the lists given to polyval and returned as params are [p0, p1, p2].
QuadraticUnpack(xs, ys, c) == Scored(xs, ys, << c[3], c[2], c[1] >>)

\* Lines 70-79: the try block of quadratic_regression.
QuadraticFit(x, y) ==
    IF FitRaises(x, y)
    THEN Raised("RuntimeError")
    ELSE QuadraticUnpack(Values(x), Values(y), polyfit(Values(x), Values(y), 2))

\* quadratic_regression with the minimum number of samples of the linear
\* fit.
quadratic_regression_min2(x, y) ==
    IF x.t # "list" \/ y.t # "list"
    THEN Raised("ValueError")
    ELSE IF ~AllNumbers(x) \/ ~AllNumbers(y)
    THEN Raised("ValueError")
    ELSE IF Len(x.items) # Len(y.items)
    THEN Raised("ValueError")
    ELSE IF Len(x.items) < 2
    THEN Returned(<< Zero, Zero, Zero >>, RSqrt(Zero))
    ELSE QuadraticFit(x, y)

quadratic_regression(x, y) ==
    IF x.t # "list" \/ y.t # "list"
    THEN Raised("ValueError")
    ELSE IF ~AllNumbers(x) \/ ~AllNumbers(y)
    THEN Raised("ValueError")
    ELSE IF Len(x.items) # Len(y.items)
    THEN Raised("ValueError")
    ELSE IF Len(x.items) < 3
    THEN Returned(<< Zero, Zero, Zero >>, RSqrt(Zero))
    ELSE QuadraticFit(x, y)

\* ------------------------------------------------------------------------
\* lambda_function.py: request bodies and json
\* ------------------------------------------------------------------------
\* A member of a JSON object: absent, or present with a value (None for a
\* JSON null, a list, or another non-list value).
Absent == [present |-> FALSE, val |-> NoneArg]

Member(val) == [present |-> TRUE, val |-> val]

\* A parsed JSON document: an object with optional members x and y and
\* possibly other keys, or a value that is not an object, of which only its
\* truth value matters ([], 0, "", false, null are falsy).
Object(mx, my, extra) ==
    [t |-> "obj", truthy |-> (mx.present \/ my.present \/ extra),
     x |-> mx, y |-> my, extra |-> extra]

NonObject(truthy) ==
    [t |-> "other", truthy |-> truthy, x |-> Absent, y |-> Absent, extra |-> FALSE]

\* A string: empty, not well-formed JSON, or the text of a JSON document.
EmptyText == [form |-> "empty", doc |-> NonObject(FALSE)]

MalformedText == [form |-> "malformed", doc |-> NonObject(FALSE)]

JsonText(doc) == [form |-> "json", doc |-> doc]

\* json.loads(s): the document, or JSONDecodeError.
json_loads(s) ==
    IF s.form = "json"
    THEN [kind |-> "return", exc |-> "none", doc |-> s.doc]
    ELSE [kind |-> "raise", exc |-> "JSONDecodeError", doc |-> NonObject(FALSE)]

\* dict.get(key): None for a missing key.
Get(doc, key) ==
    LET m == IF key = "x" THEN doc.x ELSE doc.y
    IN  IF m.present THEN m.val ELSE NoneArg

\* Python's exception classes: JSONDecodeError derives from ValueError, and
\* every class used here derives from Exception (werkzeug's BadRequest too).
IsInstance(exc, cls) ==
    \/ cls = "Exception"
    \/ exc = cls
    \/ exc = "JSONDecodeError" /\ cls = "ValueError"

\* The payload of a response and its serialisation (json.dumps / jsonify).
ResultPayload(r) ==
    [kind |-> "result", params |-> r.params, RMSE |-> r.RMSE, error |-> << >>]

ErrorPayload(prefix, exc) ==
    [kind |-> "error", params |-> << >>, RMSE |-> RSqrt(Zero),
     error |-> << prefix, exc >>]

NoPayload == [kind |-> "none", params |-> << >>, RMSE |-> RSqrt(Zero), error |-> << >>]

json_dumps(payload) == [form |-> "json", doc |-> payload]

NoText == [form |-> "none", doc |-> NoPayload]

\* ------------------------------------------------------------------------
\* lambda_function.py: handler
\* ------------------------------------------------------------------------
LambdaResponse(status, payload) ==
    [statusCode |-> status, body |-> json_dumps(payload),
     headers |-> [ContentType |-> "application/json"], raised |-> "none"]

Escaped(exc) ==
    [statusCode |-> 0, body |-> NoText, headers |-> [ContentType |-> "none"],
     raised |-> exc]

NoResponse ==
    [statusCode |-> 0, body |-> NoText, headers |-> [ContentType |-> "none"],
     raised |-> "none"]

TryReturn(resp) == [kind |-> "return", exc |-> "none", response |-> resp]

TryRaise(exc) == [kind |-> "raise", exc |-> exc, response |-> NoResponse]

\* event['body'] or '{}'
BodyOrEmptyObject(body) ==
    IF body.kind = "none" \/ (body.kind = "str" /\ body.text.form = "empty")
    THEN JsonText(Object(Absent, Absent, FALSE))
    ELSE body.text

\* Lines 84-90 / 92-98: r is the outcome of the regression call; an
\* exception propagates, a result is wrapped in a 200 response.
HandlerResult(r) ==
    IF r.kind = "raise"
    THEN TryRaise(r.exc)
    ELSE TryReturn(LambdaResponse(200, ResultPayload(r)))

\* Lines 79-106: the try block of handler once json.loads returned parsed.
HandlerRoute(ev, parsed) ==
    IF parsed.kind = "raise"
    THEN TryRaise(parsed.exc)
    ELSE IF parsed.doc.t # "obj"
    THEN TryRaise("AttributeError")
    ELSE IF ev.routeKey = "absent"
    THEN TryRaise("KeyError")
    ELSE IF ev.routeKey = "POST /linear"
    THEN HandlerResult(linear_regression(Get(parsed.doc, "x"), Get(parsed.doc, "y")))
    ELSE IF ev.routeKey = "POST /quadratic"
    THEN HandlerResult(quadratic_regression(Get(parsed.doc, "x"), Get(parsed.doc, "y")))
    ELSE TryReturn(LambdaResponse(404, ErrorPayload("", "Not Found")))

\* Lines 78-106: the try block of handler.
HandlerTry(ev) ==
    IF ev.body.kind = "absent"
    THEN TryRaise("KeyError")
    ELSE IF ev.body.kind = "other"
    THEN TryRaise("TypeError")
    ELSE HandlerRoute(ev, json_loads(BodyOrEmptyObject(ev.body)))

\* The except clauses of handler without the final "except Exception".
HandlerExcept_no_catch_all(exc) ==
    IF IsInstance(exc, "ValueError") \/ IsInstance(exc, "KeyError")
    THEN LambdaResponse(400, ErrorPayload("", exc))
    ELSE IF IsInstance(exc, "JSONDecodeError")
    THEN LambdaResponse(400, ErrorPayload("Invalid JSON in request body: ", exc))
    ELSE IF IsInstance(exc, "RuntimeError")
    THEN LambdaResponse(500, ErrorPayload("", exc))
    ELSE Escaped(exc)

\* Lines 107-134: the except clauses of handler, tried in order.
HandlerExcept(exc) ==
    IF IsInstance(exc, "ValueError") \/ IsInstance(exc, "KeyError")
    THEN LambdaResponse(400, ErrorPayload("", exc))
    ELSE IF IsInstance(exc, "JSONDecodeError")
    THEN LambdaResponse(400, ErrorPayload("Invalid JSON in request body: ", exc))
    ELSE IF IsInstance(exc, "RuntimeError")
    THEN LambdaResponse(500, ErrorPayload("", exc))
    ELSE IF IsInstance(exc, "Exception")
    THEN LambdaResponse(500, ErrorPayload("Internal Server Error: ", exc))
    ELSE Escaped(exc)

\* t is the outcome of the try block: its response, or the response of the
\* except clause that catches its exception.
HandlerFinish(t) ==
    IF t.kind = "return" THEN t.response ELSE HandlerExcept(t.exc)

handler(ev) == HandlerFinish(HandlerTry(ev))

\* ------------------------------------------------------------------------
\* lambda_function.py: the Flask routes
\* ------------------------------------------------------------------------
\* The data of the HTTP request that carries the event's body (no body is
\* empty data).
RequestData(ev) ==
    IF ev.body.kind = "str" THEN ev.body.text ELSE EmptyText

\* request.get_json() on a request of type application/json: the parsed
\* document, or BadRequest when the data does not parse.
get_json(data) ==
    LET parsed == json_loads(data)
    IN  IF parsed.kind = "raise"
        THEN [kind |-> "raise", exc |-> "BadRequest", doc |-> NonObject(FALSE)]
        ELSE parsed

FlaskResponse(status, payload) ==
    [statusCode |-> status, body |-> json_dumps(payload),
     headers |-> [ContentType |-> "application/json"], raised |-> "none"]

\* Lines 30-38 / 58-66: the except clauses of a route, tried in order.
RouteExcept(exc) ==
    IF IsInstance(exc, "ValueError")
    THEN FlaskResponse(400, ErrorPayload("", exc))
    ELSE IF IsInstance(exc, "RuntimeError")
    THEN FlaskResponse(500, ErrorPayload("", exc))
    ELSE IF IsInstance(exc, "Exception")
    THEN FlaskResponse(500, ErrorPayload("Internal server error: ", exc))
    ELSE Escaped(exc)

\* Lines 28-29 / 56-57: r is the outcome of the regression call; an
\* exception propagates, a result is returned with jsonify (status 200).
RouteResult(r) ==
    IF r.kind = "raise"
    THEN TryRaise(r.exc)
    ELSE TryReturn(FlaskResponse(200, ResultPayload(r)))

\* Lines 20-27 / 48-55: the checks of a route on what get_json gave: the
\* response or exception they end with, or "pass" when x and y go on to the
\* regression function.
RouteChecks(got) ==
    IF got.kind = "raise"
    THEN TryRaise(got.exc)
    ELSE IF ~got.doc.truthy
    THEN TryReturn(FlaskResponse(400, ErrorPayload("", "Request body must be JSON")))
    ELSE IF got.doc.t # "obj"
    THEN TryRaise("AttributeError")
    ELSE IF Get(got.doc, "x").t = "none" \/ Get(got.doc, "y").t = "none"
    THEN TryReturn(FlaskResponse(400,
             ErrorPayload("", "Request body must contain x and y arrays.")))
    ELSE [kind |-> "pass", exc |-> "none", response |-> NoResponse]

\* t is the outcome of the try block of a route.
RouteFinish(t) ==
    IF t.kind = "return" THEN t.response ELSE RouteExcept(t.exc)

\* Lines 19-29: the try block of linear().
LinearTry(got) ==
    IF RouteChecks(got).kind # "pass"
    THEN RouteChecks(got)
    ELSE RouteResult(linear_regression(Get(got.doc, "x"), Get(got.doc, "y")))

linear(data) == RouteFinish(LinearTry(get_json(data)))

\* Lines 47-57: the try block of quadratic().
QuadraticTry(got) ==
    IF RouteChecks(got).kind # "pass"
    THEN RouteChecks(got)
    ELSE RouteResult(quadratic_regression(Get(got.doc, "x"), Get(got.doc, "y")))

quadratic(data) == RouteFinish(QuadraticTry(get_json(data)))

\* ------------------------------------------------------------------------
\* State
\* ------------------------------------------------------------------------
VARIABLES
    x, y,        \* the arguments of a direct call of a regression function
    fn,          \* the function called: "none", "linear" or "quadratic"
    result,      \* the outcome of that call
    event,       \* the event given to handler, also the HTTP request
    response,    \* what handler returned (or the exception that escaped)
    flask        \* what the Flask route returned for the same request

vars == << x, y, fn, result, event, response, flask >>

\* ------------------------------------------------------------------------
\* Direct calls of the regression functions
\* ------------------------------------------------------------------------
Lists(S, n) == UNION {[1..m -> S] : m \in 0..n}

NumElems(lo, hi) == {Num(v) : v \in lo..hi}

KindElems == {Num(1), BoolTrue, BoolFalse, StrElem, NullElem, NanElem}

\* Lists of finite numbers, lists mixing numbers and non-numbers, and
\* arguments that are not lists.
NumArgs(lo, hi) == {List(s) : s \in Lists(NumElems(lo, hi), MaxLen)}

KindArgs == {List(s) : s \in Lists(KindElems, MaxKindLen)}

OtherArgs == {NoneArg, ScalarArg, List(<< >>), List(<< Num(1) >>)}

NoEvent == [routeKey |-> "absent", body |-> [kind |-> "absent", text |-> EmptyText]]

InitFit ==
    /\ \/ x \in NumArgs(0 - 1, MaxX) /\ y \in NumArgs(0, MaxY)
       \/ x \in KindArgs /\ y \in KindArgs
       \/ x \in OtherArgs /\ y \in OtherArgs
    /\ fn = "none"
    /\ result = NoOutcome
    /\ event = NoEvent
    /\ response = NoResponse
    /\ flask = NoResponse

CallLinear ==
    /\ fn = "none"
    /\ fn' = "linear"
    /\ result' = linear_regression(x, y)
    /\ UNCHANGED << x, y, event, response, flask >>

CallQuadratic ==
    /\ fn = "none"
    /\ fn' = "quadratic"
    /\ result' = quadratic_regression(x, y)
    /\ UNCHANGED << x, y, event, response, flask >>

NextFit == CallLinear \/ CallQuadratic

SpecFit == InitFit /\ [][NextFit]_vars

\* ------------------------------------------------------------------------
\* Requests through the two adapters
\* ------------------------------------------------------------------------
\* Elements of the x and y arrays of a body: a finite number, a string and
\* a non-finite number are the kinds the status of a response depends on.
BodyElems == {Num(1), StrElem, NanElem}

BodyArgs == {NoneArg, ScalarArg} \cup {List(s) : s \in Lists(BodyElems, MaxBodyLen)}

Members == {Absent} \cup {Member(a) : a \in BodyArgs}

Docs ==
    {Object(mx, my, e) : mx \in Members, my \in Members, e \in BOOLEAN}
        \cup {NonObject(b) : b \in BOOLEAN}

Texts == {EmptyText, MalformedText} \cup {JsonText(d) : d \in Docs}

\* event['body']: the key is missing, the value is None, a string, or a
\* value that is not a string.
Bodies ==
    {[kind |-> k, text |-> EmptyText] : k \in {"absent", "none", "other"}}
        \cup {[kind |-> "str", text |-> s] : s \in Texts}

RouteKeys == {"POST /linear", "POST /quadratic", "GET /other", "absent"}

Events == [routeKey : RouteKeys, body : Bodies]

InitHandler ==
    /\ event \in Events
    /\ response = NoResponse
    /\ flask = NoResponse
    /\ x = NoneArg
    /\ y = NoneArg
    /\ fn = "none"
    /\ result = NoOutcome

\* The event is delivered to the Lambda handler.
Handler ==
    /\ response = NoResponse
    /\ response' = handler(event)
    /\ UNCHANGED << x, y, fn, result, event, flask >>

\* The same body is posted to the Flask route /linear.
FlaskLinear ==
    /\ flask = NoResponse
    /\ event.routeKey = "POST /linear"
    /\ event.body.kind # "other"
    /\ flask' = linear(RequestData(event))
    /\ UNCHANGED << x, y, fn, result, event, response >>

\* The same body is posted to the Flask route /quadratic.
FlaskQuadratic ==
    /\ flask = NoResponse
    /\ event.routeKey = "POST /quadratic"
    /\ event.body.kind # "other"
    /\ flask' = quadratic(RequestData(event))
    /\ UNCHANGED << x, y, fn, result, event, response >>

NextHandler == Handler \/ FlaskLinear \/ FlaskQuadratic

SpecHandler == InitHandler /\ [][NextHandler]_vars

\* ------------------------------------------------------------------------
\* Properties of the regression functions (checked under SpecFit)
\* ------------------------------------------------------------------------
BothLists == x.t = "list" /\ y.t = "list"

\* A sample set in the sense of the data model: two lists of finite real
\* numbers (ints or floats, not bools) of equal length.
IsSampleSet ==
    /\ BothLists
    /\ \A i \in 1..Len(x.items) : x.items[i].k = "num"
    /\ \A i \in 1..Len(y.items) : y.items[i].k = "num"
    /\ Len(x.items) = Len(y.items)

NumSamples == Len(x.items)

DistinctX == Cardinality(Nodes(Values(x)))

Degree == IF fn = "linear" THEN 1 ELSE 2

DefaultResult(n) == Returned([j \in 1..n |-> Zero], RSqrt(Zero))

\* p (ordered intercept first) minimises the residual sum of squares over
\* the polynomials of degree Len(p) - 1: the residuals of x |-> polyval(x, p)
\* are orthogonal to every column 1, x, x^2, ... of the design matrix.
IsLeastSquares(p) ==
    \A k \in 0..(Len(p) - 1) :
        RSumSeq([i \in 1..NumSamples |->
            RMul(RSub(RInt(Values(y)[i]), polyval(Values(x)[i], p)),
                 RInt(Pow(Values(x)[i], k)))]) = Zero

\* Every sample lies on the polynomial with the integer coefficients c.
OnCurve(c) ==
    \A i \in 1..NumSamples :
        Values(y)[i] = SumSeq([j \in 1..Len(c) |-> c[j] * Pow(Values(x)[i], j - 1)])

CoefRange == (0 - 2 * MaxY)..(2 * MaxY)

\* C1: for a sample set of at least 2 samples with at least 2 distinct x
\* values, linear_regression returns [intercept, slope] of the least-squares
\* line; when all points lie on y = a + b*x it returns [a, b] and RMSE 0.
ClaimC1 ==
    (fn = "linear" /\ IsSampleSet /\ NumSamples >= 2 /\ DistinctX >= 2) =>
        /\ result.kind = "return"
        /\ Len(result.params) = 2
        /\ IsLeastSquares(result.params)
        /\ \A a, b \in CoefRange :
               OnCurve(<< a, b >>) =>
                   /\ result.params = << RInt(a), RInt(b) >>
                   /\ result.RMSE = RSqrt(Zero)

\* C2: for a sample set of at least 3 samples with at least 3 distinct x
\* values, quadratic_regression returns 3 coefficients ordered [intercept,
\* linear, quadratic]; when all points lie on y = a + b*x + c*x^2 it
\* returns [a, b, c] and RMSE 0.
ClaimC2 ==
    (fn = "quadratic" /\ IsSampleSet /\ NumSamples >= 3 /\ DistinctX >= 3) =>
        /\ result.kind = "return"
        /\ Len(result.params) = 3
        /\ IsLeastSquares(result.params)
        /\ \A a, b, c \in CoefRange :
               OnCurve(<< a, b, c >>) =>
                   /\ result.params = << RInt(a), RInt(b), RInt(c) >>
                   /\ result.RMSE = RSqrt(Zero)

HasNonNumeric(arg) ==
    \E i \in 1..Len(arg.items) : arg.items[i].k \in {"str", "null", "bool"}

\* C3: when x or y contains a string, a null or a boolean, both regression
\* functions raise ValueError and return no fit, whatever the lengths are.
ClaimC3 ==
    (fn # "none" /\ BothLists /\ (HasNonNumeric(x) \/ HasNonNumeric(y))) =>
        result = Raised("ValueError")

\* C4: a sample set with enough samples for the degree but at most that
\* many distinct x values (all x identical for linear_regression) makes the
\* function raise RuntimeError instead of returning coefficients.
ClaimC4 ==
    (fn # "none" /\ IsSampleSet /\ NumSamples >= Degree + 1 /\ DistinctX <= Degree) =>
        result = Raised("RuntimeError")

\* C8: for lists of numbers of equal length, linear_regression with fewer
\* than 2 samples returns exactly params [0, 0], RMSE 0, and
\* quadratic_regression with fewer than 3 samples returns exactly params
\* [0, 0, 0], RMSE 0, whatever the values are.
TheoremC8 ==
    (BothLists /\ AllNumbers(x) /\ AllNumbers(y) /\ Len(x.items) = Len(y.items)) =>
        /\ (fn = "linear" /\ NumSamples < 2) => result = DefaultResult(2)
        /\ (fn = "quadratic" /\ NumSamples < 3) => result = DefaultResult(3)

\* quadratic_regression was called on the two samples (0, 0) and (1, 1) and
\* returned.
WitnessC8 ==
    /\ fn = "quadratic"
    /\ IsSampleSet
    /\ NumSamples = 2
    /\ Values(x) = << 0, 1 >>
    /\ Values(y) = << 0, 1 >>
    /\ result.kind = "return"

\* C9: when x and y are lists of different lengths, both regression
\* functions raise ValueError; the too-few-samples default is never returned
\* for them, however short the lists are.
TheoremC9 ==
    (fn # "none" /\ BothLists /\ Len(x.items) # Len(y.items)) =>
        result = Raised("ValueError")

\* linear_regression was called on lists of numbers of lengths 0 and 1 and
\* raised.
WitnessC9 ==
    /\ fn = "linear"
    /\ BothLists
    /\ AllNumbers(x) /\ AllNumbers(y)
    /\ Len(x.items) = 0
    /\ Len(y.items) = 1
    /\ result.kind = "raise"

\* ------------------------------------------------------------------------
\* Properties of the adapters (checked under SpecHandler)
\* ------------------------------------------------------------------------
Recognized == event.routeKey \in {"POST /linear", "POST /quadratic"}

Responded == response # NoResponse

\* C5: an event whose routeKey is neither "POST /linear" nor
\* "POST /quadratic" gets statusCode 404, whatever its body is.
ClaimC5 ==
    (Responded /\ event.routeKey = "GET /other" /\ event.body.kind \in {"none", "str"}) =>
        response.statusCode = 404

\* The body does not supply x and y arrays: it is not well-formed JSON, not
\* an object, or x or y is missing, null or not a list.
StructurallyBad ==
    /\ event.body.kind = "str"
    /\ \/ event.body.text.form = "malformed"
       \/ /\ event.body.text.form = "json"
          /\ \/ event.body.text.doc.t # "obj"
             \/ Get(event.body.text.doc, "x").t # "list"
             \/ Get(event.body.text.doc, "y").t # "list"

\* C6: with a recognized routeKey, a body that is malformed JSON or does not
\* supply lists x and y gets statusCode 400, never 500.
ClaimC6 ==
    (Responded /\ Recognized /\ StructurallyBad) => response.statusCode = 400

\* C7: for the same body sent to the same endpoint, the Flask route and the
\* handler return the same status code and, on success, the same result.
ClaimC7 ==
    (Responded /\ flask # NoResponse) =>
        /\ flask.statusCode = response.statusCode
        /\ response.statusCode = 200 => flask.body = response.body

\* C10: handler always returns a response: no exception escapes, the
\* statusCode is 200, 400, 404 or 500, the body is JSON text, the header
\* Content-Type is application/json, and the body carries params and RMSE
\* exactly when the statusCode is 200 and an error message otherwise.
TheoremC10 ==
    Responded =>
        /\ response.raised = "none"
        /\ response.statusCode \in {200, 400, 404, 500}
        /\ response.body.form = "json"
        /\ response.headers.ContentType = "application/json"
        /\ response.body.doc.kind = "result" <=> response.statusCode = 200
        /\ response.statusCode # 200 =>
               /\ response.body.doc.kind = "error"
               /\ response.body.doc.params = << >>
               /\ response.body.doc.error # << >>

\* handler got an event without a routeKey whose body is a JSON value that
\* is not an object: the AttributeError is caught by the last clause only.
WitnessC10 ==
    /\ Responded
    /\ event.routeKey = "absent"
    /\ event.body.kind = "str"
    /\ event.body.text.form = "json"
    /\ event.body.text.doc.t = "other"
    /\ response.statusCode = 500

====
